---- MODULE Spec2Model ----
(***************************************************************************)
(* A model of the routed backend (src/backend/server.js, lines 1-185, and  *)
(* src/backend/gtfsParser.js): the shapes cache that is built once at      *)
(* startup and served by GET /api/shapes_merged, and the vehicle poll      *)
(* GET /api/vehicles that fans out one fetch per configured feed.          *)
(*                                                                         *)
(* JavaScript values: an absent value (null / undefined) is the empty      *)
(* sequence <<>> and a present value v is the one-element sequence <<v>>.  *)
(***************************************************************************)
EXTENDS Integers, Sequences, FiniteSets, Bags, TLC

VARIABLES
    \* ---- GET /api/vehicles (server.js 122-169), one record per request
    handler,      \* position of the request handler: "idle", "waiting", "responded"
    task,         \* per source: the async arrow function of FEED_URLS.map
    vehicles,     \* the array `vehicles` of line 130, shared by the tasks
    res,          \* the HTTP response sent, <<>> while none was sent
    console,      \* console.error lines written by the inner catch
    \* ---- startup and the shapes cache (server.js 16-107, 171-185)
    initPc,       \* position of init(): "download", "extract", "build", "loop",
                  \* "listen", "listening", "failed"
    initError,    \* the error init() caught and logged at line 181
    data,         \* the data directory that extractGTFS fills
    reads,        \* number of readGTFSFile calls made so far
    shapesById,   \* locals of buildShapesCache, lines 24-37
    trips,
    tripIdx,      \* index of the next trip of the loop of line 39
    routeDirShapes,
    processedShapeKeys,
    pushed,       \* history of the calls of push at line 69: the trip that made
                  \* the call, the entry it pushed to, and the line pushed
    cachedShapes, \* line 16
    gets,         \* the GET /api/shapes_merged requests served, with their answers
    \* ---- the static GTFS cache of the second server (server.js 187-293)
    clock,            \* Date.now(), in units of which CACHE_TTL is two
    timerAt,          \* the time at which the interval of line 238 last fired
    staticGtfsCache,  \* line 201
    staticCalls,      \* the calls of getStaticGtfs, in the order they were made
    \* ---- the Map component of the client (Map.tsx 27-113)
    rendered,     \* the component is in the tree
    effect,       \* the number of the current run of the effect of line 52
    mapPolls,     \* the calls of fetchAll, in the order they were made
    mapVehicles,  \* the `vehicles` state of line 28, with the poll that set it
    mapErrors     \* the `errors` state of line 29

vvars == <<handler, task, vehicles, res, console>>
buildLocals == <<shapesById, trips, tripIdx, routeDirShapes, processedShapeKeys, pushed>>
svars == <<initPc, initError, data, reads, buildLocals, cachedShapes, gets>>
gvars == <<clock, timerAt, staticGtfsCache, staticCalls>>
cvars == <<rendered, effect, mapPolls, mapVehicles, mapErrors>>
xvars == <<gvars, cvars>>
vars == <<vvars, svars, xvars>>

None == <<>>
Some(v) == <<v>>

(***************************************************************************)
(* Bounds of the model.                                                    *)
(***************************************************************************)
NumSources == 2
MaxRandom == 2
MaxTrips == 2
MaxGets == 2
MaxStaticCalls == 3
MaxClock == 4
MaxPolls == 2

\* FEED_URLS: the configured sources, in list order; a url is its index.
FEED_URLS == [i \in 1..NumSources |-> i]
Sources == 1..Len(FEED_URLS)

\* Requests in flight.
Polls == {1}

\* The requests of the scenario of two overlapping polls.
Calls == Polls \cup {2}

\* Values Math.random() can return.
RandomValues == 1..MaxRandom

(***************************************************************************)
(* Feed payloads.  An entity of a decoded FeedMessage: id, and an optional *)
(* vehicle with an optional position, an optional descriptor (vehicle.id)  *)
(* and an optional trip.  The latitude and the longitude of a position are *)
(* optional values too.                                                    *)
(***************************************************************************)
Position(lat, lon) == [latitude |-> Some(lat), longitude |-> Some(lon), bearing |-> 90]

EntA ==
    [id |-> Some("a"),
     vehicle |-> Some([position |-> Some(Position(40, -74)), vehicle |-> Some([id |-> Some("va")]),
                       timestamp |-> 100, trip |-> Some([routeId |-> "A", tripId |-> "t1"])])]
EntB ==
    [id |-> Some("b"),
     vehicle |-> Some([position |-> Some(Position(41, -73)), vehicle |-> None,
                       timestamp |-> 101, trip |-> None])]
\* a trip update: no vehicle member at all
EntNoVehicle == [id |-> Some("u"), vehicle |-> None]
\* a vehicle without a position
EntNoPosition ==
    [id |-> Some("n"),
     vehicle |-> Some([position |-> None, vehicle |-> None, timestamp |-> 102, trip |-> None])]
\* Entities for which line 149 falls back: one without an id of its own
\* whose vehicle descriptor has an id, and one with neither.
EntVehicleId ==
    [id |-> None,
     vehicle |-> Some([position |-> Some(Position(42, -72)), vehicle |-> Some([id |-> Some("vc")]),
                       timestamp |-> 103, trip |-> None])]
EntNoId ==
    [id |-> None,
     vehicle |-> Some([position |-> Some(Position(43, -71)), vehicle |-> Some([id |-> None]),
                       timestamp |-> 104, trip |-> Some([routeId |-> "B", tripId |-> "t2"])])]
\* a vehicle whose position has a longitude and no latitude
EntNoLatitude ==
    [id |-> Some("l"),
     vehicle |-> Some([position |-> Some([Position(0, -70) EXCEPT !.latitude = None]),
                       vehicle |-> None, timestamp |-> 105, trip |-> None])]
Feeds ==
    { <<>>, <<EntA>>, <<EntNoVehicle, EntB>>, <<EntB, EntNoPosition, EntA>>,
      <<EntVehicleId, EntNoId>>, <<EntNoLatitude, EntB>> }

(***************************************************************************)
(* server.js 144-157: the loop over feed.entity.  An entity without a      *)
(* vehicle or without a position is skipped; every other entity is pushed. *)
(***************************************************************************)
\* a ?? b
Coalesce(a, b) == IF a # None THEN a ELSE b

\* a?.f for an optional record a whose field f is itself optional
OptField(a, f) == IF a = None THEN None ELSE a[1][f]

\* The values an id can be: a string of the feed, or a number that
\* Math.random() returned.
Str(s) == [type |-> "string", s |-> s, n |-> 0]
RandomNumber(n) == [type |-> "number", s |-> "", n |-> n]
OptStr(a) == IF a = None THEN None ELSE Some(Str(a[1]))

\* line 149: ent.id ?? v.vehicle?.id ?? Math.random()
VehicleId(ent, rnd) ==
    Coalesce(OptStr(ent.id),
             Coalesce(OptStr(OptField(ent.vehicle[1].vehicle, "id")),
                      Some(RandomNumber(rnd))))[1]

\* lines 148-156: the record pushed for one entity
VehicleRecord(ent, rnd) ==
    LET v == ent.vehicle[1]
        pos == v.position[1]
    IN  [id |-> VehicleId(ent, rnd),
         lat |-> pos.latitude,
         lon |-> pos.longitude,
         bearing |-> pos.bearing,
         timestamp |-> v.timestamp,
         routeId |-> IF v.trip = None THEN None ELSE Some(v.trip[1].routeId),
         tripId |-> IF v.trip = None THEN None ELSE Some(v.trip[1].tripId)]

\* line 145: if (!ent.vehicle || !ent.vehicle.position) continue;
SkipEntity(ent) == ent.vehicle = None \/ ent.vehicle[1].position = None

\* The loop with `break` in place of `continue`.
RECURSIVE PushEntitiesBreak(_, _, _, _)
PushEntitiesBreak(arr, feed, rnds, i) ==
    IF i > Len(feed) \/ SkipEntity(feed[i]) THEN arr
    ELSE PushEntitiesBreak(Append(arr, VehicleRecord(feed[i], rnds[i])), feed, rnds, i + 1)

RECURSIVE PushEntities(_, _, _, _)
PushEntities(arr, feed, rnds, i) ==
    IF i > Len(feed) THEN arr
    ELSE IF SkipEntity(feed[i]) THEN PushEntities(arr, feed, rnds, i + 1)
    ELSE PushEntities(Append(arr, VehicleRecord(feed[i], rnds[i])), feed, rnds, i + 1)

(***************************************************************************)
(* server.js 135, 158-160: the try/catch around the body of each task.     *)
(* Whatever the body throws is caught and logged, so the promise of the    *)
(* task is fulfilled, never rejected.                                      *)
(***************************************************************************)
\* The task without its try/catch: the error rejects the promise of the task.
NoCatchInner(url, message) == [state |-> "rejected", log |-> <<>>]

CatchInner(url, message) ==
    [state |-> "fulfilled", log |-> <<[url |-> url, message |-> message]>>]

\* line 137: throw new Error(`HTTP ${response.status}`)
HttpMessage(status) == IF status = 500 THEN "HTTP 500" ELSE "HTTP 404"

ErrorStatuses == {404, 500}

\* 124-127: the answer when no feed is configured
NoFeedResponse ==
    [status |-> 500, body |-> [error |-> "No GTFS-RT feed configured", vehicles |-> <<>>]]

\* server.js 198-199: the default url, and the time to live of the cache in
\* units of the clock.
STATIC_GTFS_ZIP_URL == "default"
CACHE_TTL == 2

\* line 237: getStaticGtfs() is called when the module loads; the cache is
\* empty, so the call is downloading from the default url.
InitialCall ==
    [pc |-> "fetching", url |-> STATIC_GTFS_ZIP_URL, now |-> 1, fetched |-> TRUE, result |-> None]

\* Map.tsx line 27: the feed urls the component is given
ClientUrls == {"f1", "f2"}

\* lines 57-61: a call of fetchAll made by run g of the effect: allVehicles
\* is empty and one task per url is fetching.
NewPoll(g) ==
    [effect |-> g, allVehicles |-> <<>>, task |-> [u \in ClientUrls |-> "fetching"]]

\* A task that has not started.
IdleTask == [pc |-> "idle", state |-> "pending", feed |-> None, error |-> None]

Init ==
    /\ handler = [p \in Calls |-> "idle"]
    /\ task = [p \in Calls |-> [s \in Sources |-> IdleTask]]
    /\ vehicles = [p \in Calls |-> <<>>]
    /\ res = [p \in Calls |-> None]
    /\ console = <<>>
    /\ initPc = "download"
    /\ initError = None
    /\ data = [shapes |-> None, trips |-> None]
    /\ reads = 0
    /\ shapesById = <<>>
    /\ trips = <<>>
    /\ tripIdx = 0
    /\ routeDirShapes = <<>>
    /\ processedShapeKeys = {}
    /\ pushed = <<>>
    /\ cachedShapes = None
    /\ gets = <<>>
    /\ clock = 1
    /\ timerAt = 1
    /\ staticGtfsCache = [updatedAt |-> 0, data |-> None]
    /\ staticCalls = <<InitialCall>>
    /\ rendered = TRUE
    /\ effect = 1
    /\ mapPolls = <<NewPoll(1)>>
    /\ mapVehicles = [vehicles |-> <<>>, poll |-> 0]
    /\ mapErrors = [u \in ClientUrls |-> None]

(***************************************************************************)
(* 122-134: the handler starts.  With no feed configured it answers 500;   *)
(* otherwise FEED_URLS.map calls every arrow function, and each runs up to *)
(* its first await, the fetch of line 136.                                 *)
(***************************************************************************)
VehiclesRequest(p) ==
    /\ handler[p] = "idle"
    /\ IF Len(FEED_URLS) = 0
       THEN /\ res' = [res EXCEPT ![p] = Some(NoFeedResponse)]
            /\ handler' = [handler EXCEPT ![p] = "responded"]
            /\ UNCHANGED <<task, vehicles>>
       ELSE /\ vehicles' = [vehicles EXCEPT ![p] = <<>>]
            /\ task' = [task EXCEPT ![p] = [s \in Sources |-> [IdleTask EXCEPT !.pc = "fetch"]]]
            /\ handler' = [handler EXCEPT ![p] = "waiting"]
            /\ UNCHANGED res
    /\ UNCHANGED <<console, svars, xvars>>

(***************************************************************************)
(* 133: the state of Promise.all over the promises of the tasks: rejected  *)
(* as soon as one is rejected, fulfilled once all are fulfilled.           *)
(***************************************************************************)
PromiseAll(tasks) ==
    IF \E s \in DOMAIN tasks : tasks[s].state = "rejected" THEN "rejected"
    ELSE IF \A s \in DOMAIN tasks : tasks[s].state = "fulfilled" THEN "fulfilled"
    ELSE "pending"

\* 164: res.json({ ok: true, vehicles })
OkResponse(arr) == [status |-> 200, body |-> [ok |-> TRUE, vehicles |-> arr]]

\* 165-168: the outer catch
FailResponse(message) ==
    [status |-> 500, body |-> [ok |-> FALSE, error |-> message, vehicles |-> <<>>]]

(***************************************************************************)
(* A task of request p settles, leaving the tasks as newTasks and the      *)
(* array as newVehicles.  The continuation of `await Promise.all` runs in  *)
(* the same turn of the event loop: when the join has settled and no       *)
(* response was sent yet, the response is sent now.                        *)
(***************************************************************************)
\* One array for all requests, as if `vehicles` were declared at module level.
SettleShared(p, newTasks, newVehicles) ==
    /\ task' = [task EXCEPT ![p] = newTasks]
    /\ vehicles' = [q \in DOMAIN vehicles |-> newVehicles]
    /\ IF handler[p] = "waiting" /\ PromiseAll(newTasks) = "rejected"
       THEN LET s == CHOOSE x \in Sources : newTasks[x].state = "rejected"
            IN  /\ res' = [res EXCEPT ![p] = Some(FailResponse(newTasks[s].error[1]))]
                /\ handler' = [handler EXCEPT ![p] = "responded"]
       ELSE IF handler[p] = "waiting" /\ PromiseAll(newTasks) = "fulfilled"
       THEN /\ res' = [res EXCEPT ![p] = Some(OkResponse(newVehicles))]
            /\ handler' = [handler EXCEPT ![p] = "responded"]
       ELSE UNCHANGED <<res, handler>>

Settle(p, newTasks, newVehicles) ==
    /\ task' = [task EXCEPT ![p] = newTasks]
    /\ vehicles' = [vehicles EXCEPT ![p] = newVehicles]
    /\ IF handler[p] = "waiting" /\ PromiseAll(newTasks) = "rejected"
       THEN LET s == CHOOSE x \in Sources : newTasks[x].state = "rejected"
            IN  /\ res' = [res EXCEPT ![p] = Some(FailResponse(newTasks[s].error[1]))]
                /\ handler' = [handler EXCEPT ![p] = "responded"]
       ELSE IF handler[p] = "waiting" /\ PromiseAll(newTasks) = "fulfilled"
       THEN /\ res' = [res EXCEPT ![p] = Some(OkResponse(newVehicles))]
            /\ handler' = [handler EXCEPT ![p] = "responded"]
       ELSE UNCHANGED <<res, handler>>

\* The body of the task of source s throws an error with the given message.
TaskThrows(p, s, message) ==
    LET c == CatchInner(FEED_URLS[s], message)
        t == [pc |-> "done", state |-> c.state, feed |-> None, error |-> Some(message)]
    IN  /\ Settle(p, [task[p] EXCEPT ![s] = t], vehicles[p])
        /\ console' = console \o c.log

(***************************************************************************)
(* 136-137: the fetch settles.  It rejects (network error), or resolves    *)
(* with a status; a non-ok status throws.                                  *)
(***************************************************************************)
FetchSettle(p, s) ==
    /\ task[p][s].pc = "fetch"
    /\ UNCHANGED <<svars, xvars>>
    /\ \/ TaskThrows(p, s, "network error")
       \/ \E st \in ErrorStatuses : TaskThrows(p, s, HttpMessage(st))
       \/ /\ task' = [task EXCEPT ![p][s].pc = "body"]
          /\ UNCHANGED <<handler, vehicles, res, console>>

(***************************************************************************)
(* 139-157: the body arrives.  arrayBuffer() rejects, or decode throws on  *)
(* an undecodable payload, or the feed is decoded and its entities are     *)
(* pushed in one synchronous run.                                          *)
(***************************************************************************)
BodySettle(p, s) ==
    /\ task[p][s].pc = "body"
    /\ UNCHANGED <<svars, xvars>>
    /\ \/ TaskThrows(p, s, "body error")
       \/ TaskThrows(p, s, "decode error")
       \/ \E feed \in Feeds : \E rnds \in [1..Len(feed) -> RandomValues] :
            LET t == [pc |-> "done", state |-> "fulfilled", feed |-> Some(feed), error |-> None]
            IN  /\ Settle(p, [task[p] EXCEPT ![s] = t], PushEntities(vehicles[p], feed, rnds, 1))
                /\ UNCHANGED console

(***************************************************************************)
(* The source never answers: neither fetch() nor arrayBuffer() is given a  *)
(* timeout or an abort signal, so the await never resumes.                 *)
(***************************************************************************)
SourceHangs(p, s) ==
    /\ task[p][s].pc \in {"fetch", "body"}
    /\ task' = [task EXCEPT ![p][s].pc = "hung"]
    /\ UNCHANGED <<handler, vehicles, res, console, svars, xvars>>

NextVehicles ==
    \/ \E p \in Polls : VehiclesRequest(p)
    \/ \E p \in Polls, s \in Sources : FetchSettle(p, s)
    \/ \E p \in Polls, s \in Sources : BodySettle(p, s)
    \/ \E p \in Polls, s \in Sources : SourceHangs(p, s)

SpecVehicles == Init /\ [][NextVehicles]_vars

\* The network delivers every answer of a source that has not gone silent.
LiveVehicles ==
    /\ SpecVehicles
    /\ \A p \in Polls, s \in Sources :
        WF_vars(FetchSettle(p, s)) /\ WF_vars(BodySettle(p, s))

(***************************************************************************)
(* Two overlapping requests.  Every request runs the handler of lines      *)
(* 122-169 with its own `vehicles` and its own tasks; the steps of the two *)
(* requests interleave in every order.  In this scenario a source answers  *)
(* with a network error or with one of two feeds.                          *)
(***************************************************************************)
OverlapFeeds == { <<EntA>>, <<EntNoVehicle, EntB>> }

OverlapFetch(p, s) ==
    /\ FetchSettle(p, s)
    /\ task'[p][s].error \in {None, Some("network error")}

OverlapBody(p, s) ==
    /\ BodySettle(p, s)
    /\ task'[p][s].feed \in {Some(feed) : feed \in OverlapFeeds}

NextOverlap ==
    \/ \E p \in Calls : VehiclesRequest(p)
    \/ \E p \in Calls, s \in Sources : OverlapFetch(p, s)
    \/ \E p \in Calls, s \in Sources : OverlapBody(p, s)

SpecOverlap == Init /\ [][NextOverlap]_vars

(***************************************************************************)
(* JavaScript numbers.  A number is NaN or an integer; coordinates are     *)
(* counted in millionths of a degree.  A field of a decoded CSV row is     *)
(* absent, or a text that is a decimal numeral or is not.                  *)
(***************************************************************************)
NaN == [nan |-> TRUE, v |-> 0]
Num(v) == [nan |-> FALSE, v |-> v]

Dec(v) == [num |-> TRUE, v |-> v, s |-> "numeral"]
Text(s) == [num |-> FALSE, v |-> 0, s |-> s]

\* Number(field): undefined and non-numeric text give NaN, "" gives 0.
Number(field) ==
    IF field = None THEN NaN
    ELSE IF field[1].num THEN Num(field[1].v)
    ELSE IF field[1].s = "" THEN Num(0)
    ELSE NaN

Minus(a, b) == IF a.nan \/ b.nan THEN NaN ELSE Num(a.v - b.v)

\* server.js 61: the tolerance 0.0005 of simplify, in millionths of a degree
Tolerance == 500

\* server.js 65-66: toFixed(5) keeps multiples of 10 millionths
FixedStep == 10

\* Number(x.toFixed(5)): the nearest multiple of FixedStep, the larger one
\* of two equally near; NaN stays NaN.
ToFixed5(x) ==
    IF x.nan THEN NaN
    ELSE LET q == x.v \div FixedStep
             r == x.v % FixedStep
         IN  Num(IF 2 * r < FixedStep THEN q * FixedStep ELSE (q + 1) * FixedStep)

(***************************************************************************)
(* server.js 30-34: Array.prototype.sort with the comparator               *)
(* Number(a.shape_pt_sequence) - Number(b.shape_pt_sequence).  The sort is *)
(* stable; it is modelled as binary insertion, in which an element moves   *)
(* before another only if the comparator is negative.                      *)
(***************************************************************************)
CompareNegative(a, b) ==
    LET d == Minus(Number(a.shape_pt_sequence), Number(b.shape_pt_sequence))
    IN  ~d.nan /\ d.v < 0

RECURSIVE InsertionPoint(_, _, _, _)
InsertionPoint(arr, pivot, left, right) ==
    IF left >= right THEN left
    ELSE LET mid == left + ((right - left) \div 2)
         IN  IF CompareNegative(pivot, arr[mid + 1])
             THEN InsertionPoint(arr, pivot, left, mid)
             ELSE InsertionPoint(arr, pivot, mid + 1, right)

RECURSIVE SortFrom(_, _)
SortFrom(arr, i) ==
    IF i > Len(arr) THEN arr
    ELSE LET at == InsertionPoint(arr, arr[i], 0, i - 1)
             moved == SubSeq(arr, 1, at) \o <<arr[i]>> \o SubSeq(arr, at + 1, i - 1)
                        \o SubSeq(arr, i + 1, Len(arr))
         IN  SortFrom(moved, i + 1)

\* The rows left in the order of the file.
Unsorted(arr) == arr

SortBySequence(arr) == SortFrom(arr, 2)

(***************************************************************************)
(* simplify-js, called at server.js 61 as simplify(pts, 0.0005, true): the *)
(* Douglas-Peucker pass only.  A squared distance is NaN, or the integer c *)
(* (l = 0), or the fraction c*c / l (l > 0).  Products are compared in     *)
(* four digits of base 10000, so that no intermediate value leaves the     *)
(* range of the model checker's integers.                                  *)
(***************************************************************************)
Base == 100 * 100

Abs(n) == IF n < 0 THEN -n ELSE n

\* a * b for 0 <= a, b < 46340 * Base, as digits of base Base, most
\* significant first (the first digit is not bounded by Base)
Product(a, b) ==
    LET ah == a \div Base
        al == a % Base
        bh == b \div Base
        bl == b % Base
        low == al * bl
        mid == ah * bl + al * bh + (low \div Base)
        high == ah * bh + (mid \div Base)
    IN  <<high \div Base, high % Base, mid % Base, low % Base>>

DigitsLess(x, y) ==
    \E i \in 1..4 : x[i] < y[i] /\ \A j \in 1..(i - 1) : x[j] = y[j]

\* The squared length of the segment p1 p2 when that is a positive number,
\* else 1: the denominator over which the squared distances to the segment
\* are counted.
SegDen(p1, p2) ==
    LET dx == Minus(p2.x, p1.x)
        dy == Minus(p2.y, p1.y)
    IN  IF dx.nan \/ dy.nan \/ (dx.v = 0 /\ dy.v = 0) THEN 1
        ELSE dx.v * dx.v + dy.v * dy.v

\* (p.x - q.x)^2 + (p.y - q.y)^2 for numbers that are not NaN
SqLen(p, q) == (p.x.v - q.x.v) * (p.x.v - q.x.v) + (p.y.v - q.y.v) * (p.y.v - q.y.v)

(***************************************************************************)
(* getSqSegDist(p, p1, p2): the squared distance of p to the segment.  The *)
(* value is NaN, or the digits of its numerator over SegDen(p1, p2).  When *)
(* p2 is NaN, t is NaN, neither `t > 1` nor `t > 0` holds and the distance *)
(* is that to p1.                                                          *)
(***************************************************************************)
getSqSegDist(p, p1, p2) ==
    LET den == SegDen(p1, p2)
        dx == Minus(p2.x, p1.x)
        dy == Minus(p2.y, p1.y)
    IN  IF p.x.nan \/ p.y.nan \/ p1.x.nan \/ p1.y.nan THEN [nan |-> TRUE, n |-> <<0, 0, 0, 0>>]
        ELSE IF dx.nan \/ dy.nan \/ (dx.v = 0 /\ dy.v = 0)
        THEN [nan |-> FALSE, n |-> Product(SqLen(p, p1), den)]
        ELSE LET dot == (p.x.v - p1.x.v) * dx.v + (p.y.v - p1.y.v) * dy.v
                 cross == (p.x.v - p1.x.v) * dy.v - (p.y.v - p1.y.v) * dx.v
             IN  IF dot > den THEN [nan |-> FALSE, n |-> Product(SqLen(p, p2), den)]
                 ELSE IF dot > 0 THEN [nan |-> FALSE, n |-> Product(Abs(cross), Abs(cross))]
                 ELSE [nan |-> FALSE, n |-> Product(SqLen(p, p1), den)]

\* sqDist > maxSqDist: false when sqDist is NaN
SqGreater(a, b) == ~a.nan /\ DigitsLess(b.n, a.n)

\* The loop of simplifyDPStep: the index of the point farthest from the
\* segment first..last among those farther than the tolerance, 0 if none.
RECURSIVE FarthestIndex(_, _, _, _, _, _)
FarthestIndex(points, first, last, i, index, maxSqDist) ==
    IF i >= last THEN index
    ELSE LET sqDist == getSqSegDist(points[i], points[first], points[last])
         IN  IF SqGreater(sqDist, maxSqDist)
             THEN FarthestIndex(points, first, last, i + 1, i, sqDist)
             ELSE FarthestIndex(points, first, last, i + 1, index, maxSqDist)

\* simplifyDPStep: the points kept strictly between first and last
RECURSIVE simplifyDPStep(_, _, _)
simplifyDPStep(points, first, last) ==
    LET sqTolerance ==
            [nan |-> FALSE,
             n |-> Product(Tolerance * Tolerance, SegDen(points[first], points[last]))]
        index == FarthestIndex(points, first, last, first + 1, 0, sqTolerance)
    IN  IF index = 0 THEN <<>>
        ELSE (IF index - first > 1 THEN simplifyDPStep(points, first, index) ELSE <<>>)
                \o <<points[index]>>
                \o (IF last - index > 1 THEN simplifyDPStep(points, index, last) ELSE <<>>)

\* A simplification that does not push the last point.
simplifyOpenEnded(points) ==
    IF Len(points) <= 2 THEN points
    ELSE <<points[1]>> \o simplifyDPStep(points, 1, Len(points))

\* simplify(points, tolerance, true)
simplify(points) ==
    IF Len(points) <= 2 THEN points
    ELSE <<points[1]>> \o simplifyDPStep(points, 1, Len(points)) \o <<points[Len(points)]>>

(***************************************************************************)
(* server.js 54-67: the line of a sorted shape: {x, y} points, simplified, *)
(* then [lon, lat] pairs rounded by toFixed(5).                            *)
(***************************************************************************)
ToPoints(rows) ==
    [i \in 1..Len(rows) |->
        [x |-> Number(rows[i].shape_pt_lon), y |-> Number(rows[i].shape_pt_lat)]]

ToCoords(points) ==
    [i \in 1..Len(points) |-> <<ToFixed5(points[i].x), ToFixed5(points[i].y)>>]

LineOf(rows) == ToCoords(simplify(ToPoints(rows)))

(***************************************************************************)
(* The schedule tables.  A shape row and a trip row as Papa.parse returns  *)
(* them with header: true: every field is a text, or absent when the row   *)
(* or the header lacks the column.                                         *)
(***************************************************************************)
ShapeRow(id, seq, lon, lat) ==
    [shape_id |-> id, shape_pt_sequence |-> Some(Dec(seq)),
     shape_pt_lon |-> Some(Dec(lon)), shape_pt_lat |-> Some(Dec(lat))]

\* A shape row whose longitude is the text lon, not a numeral.
ShapeRowText(id, seq, lon, lat) ==
    [shape_id |-> id, shape_pt_sequence |-> Some(Dec(seq)),
     shape_pt_lon |-> Some(Text(lon)), shape_pt_lat |-> Some(Dec(lat))]

TripRow(route, shape, dir) == [route_id |-> route, shape_id |-> shape, direction_id |-> dir]

\* S1 is given out of order.  S2 is given out of order, has two points of
\* sequence 2, the first of which simplify drops and the second of which is
\* a bend it keeps, and ends on a point with six decimals.  S3 is a single
\* point.  The id of the last shape contains the character "|", and the
\* longitude of its first row is no number.
ShapesTable ==
    << ShapeRow("S1", 2, -74000000, 40700000),
       ShapeRow("S2", 3, -73986004, 40750006),
       ShapeRow("S1", 1, -74010000, 40710000),
       ShapeRow("S2", 1, -73990000, 40750000),
       ShapeRow("S2", 2, -73989000, 40750100),
       ShapeRow("S3", 1, -73950004, 40650006),
       ShapeRow("S2", 2, -73988000, 40750900),
       ShapeRowText("0|S1", 1, "abc", 40800000),
       ShapeRow("0|S1", 2, -73910000, 40810000) >>

ShapeTables == { <<>>, ShapesTable }

\* Trips of route A on S1 with direction "0" and with an empty direction_id
\* field; a second shape of route A, without a direction_id; a route whose
\* id is an array index; trips without a shape, with a shape_id that
\* has no rows, and with an empty route_id; a shape id and a route id that
\* contain the character "|".
TripRows ==
    { TripRow(Some("A"), Some("S1"), Some("0")),
      TripRow(Some("A"), Some("S1"), Some("")),
      TripRow(Some("A"), Some("S2"), None),
      TripRow(Some("1"), Some("S3"), Some("1")),
      TripRow(Some("B"), None, Some("0")),
      TripRow(Some("A"), Some("S9"), Some("0")),
      TripRow(Some(""), Some("S1"), Some("0")),
      TripRow(Some("A"), Some("0|S1"), Some("0")),
      TripRow(Some("A|0"), Some("S1"), Some("0")) }

RECURSIVE SeqsUpTo(_, _)
SeqsUpTo(S, n) ==
    IF n = 0 THEN {<<>>}
    ELSE LET shorter == SeqsUpTo(S, n - 1)
         IN  shorter \cup {Append(q, x) : q \in {r \in shorter : Len(r) = n - 1}, x \in S}

TripTables == SeqsUpTo(TripRows, MaxTrips)

\* The data directory: per file its rows, or None when the file is missing.
DataDirs ==
    [shapes : {None} \cup {Some(t) : t \in ShapeTables},
     trips : {None} \cup {Some(t) : t \in TripTables}]

(***************************************************************************)
(* gtfsParser.js 5-20: readGTFSFile throws when the file does not exist,   *)
(* else returns the parsed rows.                                           *)
(***************************************************************************)
\* A reader that takes a missing file for an empty table.
readGTFSFileLenient(dir, fileName) ==
    [threw |-> FALSE, message |-> "",
     rows |-> IF dir[fileName] = None THEN <<>> ELSE dir[fileName][1]]

readGTFSFile(dir, fileName) ==
    IF dir[fileName] = None
    THEN [threw |-> TRUE, message |-> "GTFS file not found", rows |-> <<>>]
    ELSE [threw |-> FALSE, message |-> "", rows |-> dir[fileName][1]]

(***************************************************************************)
(* server.js 24-34: shapesById, the rows of every shape_id in input order, *)
(* then sorted by sequence.                                                *)
(***************************************************************************)
GroupShapes(shapes) ==
    [id \in {shapes[i].shape_id : i \in 1..Len(shapes)} |->
        SortBySequence(SelectSeq(shapes, LAMBDA pt : pt.shape_id = id))]

(***************************************************************************)
(* Objects keyed by strings.  routeDirShapes is kept as the sequence of    *)
(* its entries in insertion order; for-in visits the keys that are array   *)
(* indices first, in ascending order, then the others in insertion order.  *)
(***************************************************************************)
ArrayIndex(key) ==
    CASE key = "0" -> 0
      [] key = "1" -> 1
      [] OTHER -> -1

Find(entries, key) ==
    LET hits == {i \in 1..Len(entries) : entries[i].key = key}
    IN  IF hits = {} THEN 0 ELSE CHOOSE i \in hits : TRUE

RECURSIVE ForInFrom(_, _)
ForInFrom(entries, least) ==
    LET idx == {i \in 1..Len(entries) : ArrayIndex(entries[i].key) >= least}
    IN  IF idx = {} THEN <<>>
        ELSE LET i == CHOOSE x \in idx :
                        \A y \in idx : ArrayIndex(entries[x].key) <= ArrayIndex(entries[y].key)
             IN  <<entries[i]>> \o ForInFrom(entries, ArrayIndex(entries[i].key) + 1)

ForIn(entries) ==
    ForInFrom(entries, 0) \o SelectSeq(entries, LAMBDA e : ArrayIndex(e.key) < 0)

\* line 44: direction_id ?? "0"
Direction(trip) == Coalesce(trip.direction_id, Some("0"))[1]

\* A test that takes only an absent field for missing.
FalsyAbsentOnly(field) == field = None

\* line 41: !route_id || !shape_id, on a field that is absent or a text
Falsy(field) == field = None \/ field[1] = ""

\* line 50: `${route_id}|${dir}|${shape_id}`
ProcessedKey(route, dir, shape) == route \o "|" \o dir \o "|" \o shape

\* A check that finds no key processed.
NeverProcessed(keys, key) == FALSE

\* line 51: processedShapeKeys.has(processedKey)
AlreadyProcessed(keys, key) == key \in keys

\* lines 46-47: the entries of the route and of its direction exist
EnsureRouteDir(rds, route, dir) ==
    LET withRoute == IF Find(rds, route) = 0
                     THEN Append(rds, [key |-> route, dirs |-> <<>>])
                     ELSE rds
        r == Find(withRoute, route)
    IN  IF Find(withRoute[r].dirs, dir) # 0 THEN withRoute
        ELSE [withRoute EXCEPT ![r].dirs = Append(@, [key |-> dir, lines |-> <<>>])]

\* line 69: routeDirShapes[route_id][dir].push(simplifiedCoords)
PushLine(rds, route, dir, line) ==
    LET r == Find(rds, route)
        d == Find(rds[r].dirs, dir)
    IN  [rds EXCEPT ![r].dirs[d].lines = Append(@, line)]

(***************************************************************************)
(* server.js 72-90: one feature per route and direction, and the feature   *)
(* collection that becomes the cache.                                      *)
(***************************************************************************)
Feature(route, dir, lines) ==
    [type |-> "Feature",
     properties |-> [route_id |-> route, direction_id |-> dir],
     geometry |-> [type |-> "MultiLineString", coordinates |-> lines]]

RECURSIVE Flatten(_)
Flatten(seqs) == IF seqs = <<>> THEN <<>> ELSE Head(seqs) \o Flatten(Tail(seqs))

Features(rds) ==
    LET routes == ForIn(rds)
    IN  Flatten([r \in 1..Len(routes) |->
            LET dirs == ForIn(routes[r].dirs)
            IN  [d \in 1..Len(dirs) |-> Feature(routes[r].key, dirs[d].key, dirs[d].lines)]])

FeatureCollection(features) == [type |-> "FeatureCollection", features |-> features]

(***************************************************************************)
(* server.js 171-183: init().  downloadGTFS and extractGTFS either succeed *)
(* or throw; whatever is thrown inside the try lands in the catch of line  *)
(* 180, which logs it, and init() ends without calling app.listen.         *)
(***************************************************************************)
InitFails(message) ==
    /\ initPc' = "failed"
    /\ initError' = Some(message)

\* line 173: await downloadGTFS()
InitDownload ==
    /\ initPc = "download"
    /\ \/ /\ initPc' = "extract"
          /\ UNCHANGED initError
       \/ InitFails("download failed")
    /\ UNCHANGED <<data, reads, buildLocals, cachedShapes, gets, vvars, xvars>>

\* line 174: extractGTFS() fills the data directory
InitExtract ==
    /\ initPc = "extract"
    /\ \/ /\ \E dir \in DataDirs : data' = dir
          /\ initPc' = "build"
          /\ UNCHANGED initError
       \/ /\ InitFails("extract failed")
          /\ UNCHANGED data
    /\ UNCHANGED <<reads, buildLocals, cachedShapes, gets, vvars, xvars>>

(***************************************************************************)
(* server.js 18-37: buildShapesCache reads the two tables and groups the   *)
(* shape rows.  A missing file makes readGTFSFile throw out of the build.  *)
(***************************************************************************)
BuildRead ==
    LET shapesFile == readGTFSFile(data, "shapes")
        tripsFile == readGTFSFile(data, "trips")
    IN  /\ initPc = "build"
        /\ IF shapesFile.threw
           THEN /\ reads' = reads + 1
                /\ InitFails(shapesFile.message)
                /\ UNCHANGED buildLocals
           ELSE IF tripsFile.threw
           THEN /\ reads' = reads + 2
                /\ InitFails(tripsFile.message)
                /\ UNCHANGED buildLocals
           ELSE /\ reads' = reads + 2
                /\ shapesById' = GroupShapes(shapesFile.rows)
                /\ trips' = tripsFile.rows
                /\ tripIdx' = 1
                /\ routeDirShapes' = <<>>
                /\ processedShapeKeys' = {}
                /\ pushed' = <<>>
                /\ initPc' = "loop"
                /\ UNCHANGED initError
        /\ UNCHANGED <<data, cachedShapes, gets, vvars, xvars>>

(***************************************************************************)
(* server.js 39-70: one iteration of the loop over the trips.              *)
(***************************************************************************)
TripStep ==
    /\ initPc = "loop"
    /\ tripIdx <= Len(trips)
    /\ LET trip == trips[tripIdx]
       IN  IF Falsy(trip.route_id) \/ Falsy(trip.shape_id)
           THEN UNCHANGED <<routeDirShapes, processedShapeKeys, pushed>>
           ELSE IF trip.shape_id[1] \notin DOMAIN shapesById
           THEN UNCHANGED <<routeDirShapes, processedShapeKeys, pushed>>
           ELSE LET route == trip.route_id[1]
                    shape == trip.shape_id[1]
                    dir == Direction(trip)
                    key == ProcessedKey(route, dir, shape)
                    ensured == EnsureRouteDir(routeDirShapes, route, dir)
                    line == LineOf(shapesById[shape])
                IN  IF AlreadyProcessed(processedShapeKeys, key)
                    THEN /\ routeDirShapes' = ensured
                         /\ UNCHANGED <<processedShapeKeys, pushed>>
                    ELSE /\ processedShapeKeys' = processedShapeKeys \cup {key}
                         /\ routeDirShapes' = PushLine(ensured, route, dir, line)
                         /\ pushed' = Append(pushed, [trip |-> tripIdx, route |-> route,
                                                     dir |-> dir, shape |-> shape,
                                                     line |-> line])
    /\ tripIdx' = tripIdx + 1
    /\ UNCHANGED <<initPc, initError, data, reads, shapesById, trips, gets, vvars, xvars>>

\* A loop that publishes the geometry built so far after every trip.
BuildTripPublishing ==
    /\ TripStep
    /\ cachedShapes' = Some(FeatureCollection(Features(routeDirShapes')))

\* The loop works on its locals only; cachedShapes is not touched.
BuildTrip ==
    /\ TripStep
    /\ UNCHANGED cachedShapes

(***************************************************************************)
(* server.js 72-92: the features are collected and the finished collection *)
(* is assigned to cachedShapes.                                            *)
(***************************************************************************)
BuildFinish ==
    /\ initPc = "loop"
    /\ tripIdx > Len(trips)
    /\ cachedShapes' = Some(FeatureCollection(Features(routeDirShapes)))
    /\ initPc' = "listen"
    /\ UNCHANGED <<initError, data, reads, buildLocals, gets, vvars, xvars>>

\* lines 177-179: app.listen
InitListen ==
    /\ initPc = "listen"
    /\ initPc' = "listening"
    /\ UNCHANGED <<initError, data, reads, buildLocals, cachedShapes, gets, vvars, xvars>>

(***************************************************************************)
(* server.js 99-107: GET /api/shapes_merged.  res.json writes the cache as *)
(* JSON, in which a NaN coordinate is null.  The route is registered when  *)
(* the module loads, before init() runs, and reads nothing but the cache;  *)
(* the model lets a request be served in every state, also between two     *)
(* steps of the build, which the single thread of the program never does.  *)
(* Each answer is recorded with the position of init() (at) and of the     *)
(* trip loop (idx) at which it was given.                                  *)
(***************************************************************************)
JsonNumber(x) == IF x.nan THEN None ELSE Some(x.v)

JsonLine(line) == [i \in 1..Len(line) |-> <<JsonNumber(line[i][1]), JsonNumber(line[i][2])>>]

JsonFeature(f) ==
    [f EXCEPT !.geometry.coordinates = [i \in 1..Len(@) |-> JsonLine(@[i])]]

JsonShapes(fc) == [fc EXCEPT !.features = [i \in 1..Len(@) |-> JsonFeature(@[i])]]

NotReadyResponse == [status |-> 500, body |-> [error |-> "Shapes not loaded"]]

\* A handler that answers an unbuilt cache with an empty collection.
ShapesHandlerEmpty(cache) ==
    [status |-> 200,
     body |-> IF cache = None THEN FeatureCollection(<<>>) ELSE JsonShapes(cache[1])]

ShapesHandler(cache) ==
    IF cache = None THEN NotReadyResponse
    ELSE [status |-> 200, body |-> JsonShapes(cache[1])]

\* A handler that reads the tables again for every request.
ShapesRequestRereading ==
    /\ Len(gets) < MaxGets
    /\ gets' = Append(gets, [at |-> initPc, idx |-> tripIdx, res |-> ShapesHandler(cachedShapes)])
    /\ reads' = reads + 2
    /\ UNCHANGED <<initPc, initError, data, buildLocals, cachedShapes, vvars, xvars>>

ShapesRequest ==
    /\ Len(gets) < MaxGets
    /\ gets' = Append(gets, [at |-> initPc, idx |-> tripIdx, res |-> ShapesHandler(cachedShapes)])
    /\ UNCHANGED <<initPc, initError, data, reads, buildLocals, cachedShapes, vvars, xvars>>

NextShapes ==
    \/ InitDownload
    \/ InitExtract
    \/ BuildRead
    \/ BuildTrip
    \/ BuildFinish
    \/ InitListen
    \/ ShapesRequest

SpecShapes == Init /\ [][NextShapes]_vars

Next == NextShapes \/ NextVehicles

Spec == Init /\ [][Next]_vars

(***************************************************************************)
(* The second server (server.js 187-293): the static GTFS cache.  A        *)
(* dataset is known by the url it was downloaded from and by the call that *)
(* downloaded it.                                                          *)
(***************************************************************************)
\* The urls a call can name: the default, and another one given as ?url=.
StaticUrls == {STATIC_GTFS_ZIP_URL, "U2"}

\* line 229: the cache holds data younger than CACHE_TTL
Fresh(cache, now) == cache.data # None /\ now - cache.updatedAt < CACHE_TTL

\* lines 227-232: getStaticGtfs(url) up to its first await: it returns the
\* cached data, or starts the download from url.
StartStaticCall(url) ==
    IF Fresh(staticGtfsCache, clock)
    THEN [pc |-> "returned", url |-> url, now |-> clock, fetched |-> FALSE,
          result |-> staticGtfsCache.data]
    ELSE [pc |-> "fetching", url |-> url, now |-> clock, fetched |-> TRUE, result |-> None]

\* lines 265-269: GET /gtfs-static, with or without ?url=
StaticRequest(url) ==
    /\ Len(staticCalls) < MaxStaticCalls
    /\ staticCalls' = Append(staticCalls, StartStaticCall(url))
    /\ UNCHANGED <<clock, timerAt, staticGtfsCache, vvars, svars, cvars>>

\* line 238: the interval fires every CACHE_TTL and refreshes the default url
TimerDue == clock - timerAt >= CACHE_TTL

TimerRefresh ==
    /\ TimerDue
    /\ Len(staticCalls) < MaxStaticCalls
    /\ timerAt' = timerAt + CACHE_TTL
    /\ staticCalls' = Append(staticCalls, StartStaticCall(STATIC_GTFS_ZIP_URL))
    /\ UNCHANGED <<clock, staticGtfsCache, vvars, svars, cvars>>

\* lines 232-234: the download of call c is done; the cache is replaced,
\* stamped with the time at which the call started.
DownloadDone(c) ==
    /\ staticCalls[c].pc = "fetching"
    /\ LET dataset == Some([url |-> staticCalls[c].url, call |-> c])
       IN  /\ staticGtfsCache' = [updatedAt |-> staticCalls[c].now, data |-> dataset]
           /\ staticCalls' = [staticCalls EXCEPT ![c].pc = "returned", ![c].result = dataset]
    /\ UNCHANGED <<clock, timerAt, vvars, svars, cvars>>

\* lines 204-206, 232: fetchStaticGtfsZip throws and getStaticGtfs with it
DownloadFails(c) ==
    /\ staticCalls[c].pc = "fetching"
    /\ staticCalls' = [staticCalls EXCEPT ![c].pc = "threw"]
    /\ UNCHANGED <<clock, timerAt, staticGtfsCache, vvars, svars, cvars>>

\* Time passes; the interval fires before time passes it by.
Tick ==
    /\ clock < MaxClock
    /\ ~(TimerDue /\ Len(staticCalls) < MaxStaticCalls)
    /\ clock' = clock + 1
    /\ UNCHANGED <<timerAt, staticGtfsCache, staticCalls, vvars, svars, cvars>>

NextStatic ==
    \/ \E url \in StaticUrls : StaticRequest(url)
    \/ TimerRefresh
    \/ \E c \in 1..Len(staticCalls) : DownloadDone(c)
    \/ \E c \in 1..Len(staticCalls) : DownloadFails(c)
    \/ Tick

SpecStatic == Init /\ [][NextStatic]_vars

(***************************************************************************)
(* The client (Map.tsx 52-113): the effect that polls the feeds.  Each run *)
(* of the effect has its own `mounted` flag and interval; the first poll   *)
(* of the first run is under way when the component has rendered.          *)
(***************************************************************************)
\* The feeds a url can answer with.
ClientFeeds == { <<EntA>>, <<EntNoLatitude, EntB, EntNoId>> }

\* lines 53, 110: the `mounted` flag of run g of the effect is true until
\* the cleanup of that run is called
Mounted(g) == rendered /\ g = effect

\* line 78: entity.id ?? v.vehicle?.id ?? `${url}:${v.trip?.tripId ?? Math.random()}`
ClientVehicleId(ent, url, rnd) ==
    LET v == ent.vehicle[1]
        tripId == IF v.trip = None THEN RandomNumber(rnd) ELSE Str(v.trip[1].tripId)
    IN  Coalesce(OptStr(ent.id),
                 Coalesce(OptStr(OptField(v.vehicle, "id")),
                          Some([type |-> "template", url |-> url, rest |-> tripId])))[1]

\* lines 71-75: the entities that yield no vehicle
ClientSkip(ent) ==
    \/ SkipEntity(ent)
    \/ ent.vehicle[1].position[1].latitude = None
    \/ ent.vehicle[1].position[1].longitude = None

\* lines 69-87: the forEach over the entities of a feed, from entity i on
RECURSIVE ClientPush(_, _, _, _, _)
ClientPush(arr, feed, url, rnd, i) ==
    IF i > Len(feed) THEN arr
    ELSE IF ClientSkip(feed[i]) THEN ClientPush(arr, feed, url, rnd, i + 1)
    ELSE ClientPush(Append(arr, [id |-> ClientVehicleId(feed[i], url, rnd),
                                 lat |-> feed[i].vehicle[1].position[1].latitude[1],
                                 lon |-> feed[i].vehicle[1].position[1].longitude[1],
                                 feedUrl |-> url]),
                    feed, url, rnd, i + 1)

\* lines 89-100: setErrors; React drops the update of a component that has
\* left the tree.
SetErrors(url, value) ==
    mapErrors' = IF rendered THEN [mapErrors EXCEPT ![url] = value] ELSE mapErrors

\* lines 59, 103: when the last task of poll p has settled Promise.all
\* resolves, and fetchAll sets the vehicles if its run is still mounted.
AfterTask(p, newPoll) ==
    /\ mapPolls' = [mapPolls EXCEPT ![p] = newPoll]
    /\ mapVehicles' =
            IF (\A u \in ClientUrls : newPoll.task[u] # "fetching") /\ Mounted(newPoll.effect)
            THEN [vehicles |-> newPoll.allVehicles, poll |-> p]
            ELSE mapVehicles

\* lines 61-97: the task of url in poll p reads and decodes its feed
ClientTaskOk(p, url, feed, rnd) ==
    /\ mapPolls[p].task[url] = "fetching"
    /\ SetErrors(url, None)
    /\ AfterTask(p, [mapPolls[p] EXCEPT
                        !.task[url] = "ok",
                        !.allVehicles = ClientPush(@, feed, url, rnd, 1)])
    /\ UNCHANGED <<rendered, effect, vvars, svars, gvars>>

\* lines 62-63, 98-100: the fetch or the decoding throws
ClientTaskFails(p, url, status) ==
    /\ mapPolls[p].task[url] = "fetching"
    /\ SetErrors(url, Some(HttpMessage(status)))
    /\ AfterTask(p, [mapPolls[p] EXCEPT !.task[url] = "failed"])
    /\ UNCHANGED <<rendered, effect, vvars, svars, gvars>>

\* line 107: the interval of the current run fires
IntervalFires ==
    /\ rendered
    /\ Len(mapPolls) < MaxPolls
    /\ mapPolls' = Append(mapPolls, NewPoll(effect))
    /\ UNCHANGED <<rendered, effect, mapVehicles, mapErrors, vvars, svars, gvars>>

\* lines 106-113: the component is rendered with another feedUrls array (of
\* the same urls): the cleanup of the current run is called and the effect
\* runs again, starting a poll.
FeedUrlsChange ==
    /\ rendered
    /\ Len(mapPolls) < MaxPolls
    /\ effect' = effect + 1
    /\ mapPolls' = Append(mapPolls, NewPoll(effect + 1))
    /\ UNCHANGED <<rendered, mapVehicles, mapErrors, vvars, svars, gvars>>

\* lines 109-112: the component leaves the tree and the cleanup is called
Unmount ==
    /\ rendered
    /\ rendered' = FALSE
    /\ UNCHANGED <<effect, mapPolls, mapVehicles, mapErrors, vvars, svars, gvars>>

NextClient ==
    \/ \E p \in 1..Len(mapPolls), url \in ClientUrls, feed \in ClientFeeds, rnd \in RandomValues :
            ClientTaskOk(p, url, feed, rnd)
    \/ \E p \in 1..Len(mapPolls), url \in ClientUrls, status \in ErrorStatuses :
            ClientTaskFails(p, url, status)
    \/ IntervalFires
    \/ FeedUrlsChange
    \/ Unmount

SpecClient == Init /\ [][NextClient]_vars

(***************************************************************************)
(* Properties of the vehicle poll.                                         *)
(***************************************************************************)
Responded(p) == res[p] # None
Response(p) == res[p][1]
Succeeded(p, s) == task[p][s].pc = "done" /\ task[p][s].feed # None
Failed(p, s) == task[p][s].pc = "done" /\ task[p][s].error # None
FailedSources(p) == {s \in Sources : Failed(p, s)}

\* What a vehicle record says of the entity it was made from, the id aside.
Sighting(v) == [lat |-> v.lat, lon |-> v.lon, timestamp |-> v.timestamp]
Sightings(arr) == [i \in 1..Len(arr) |-> Sighting(arr[i])]

\* The entities of a feed that carry a vehicle position, in feed order.
HasPosition(ent) == ent.vehicle # None /\ ent.vehicle[1].position # None
Positioned(feed) ==
    LET ents == SelectSeq(feed, HasPosition)
    IN  [i \in 1..Len(ents) |->
            [lat |-> ents[i].vehicle[1].position[1].latitude,
             lon |-> ents[i].vehicle[1].position[1].longitude,
             timestamp |-> ents[i].vehicle[1].timestamp]]

SeqToBag(seq) ==
    LET vals == {seq[i] : i \in 1..Len(seq)}
    IN  [v \in vals |-> Cardinality({i \in 1..Len(seq) : seq[i] = v})]

\* The vehicles of the succeeding sources 1..n of request p, in source order.
RECURSIVE InSourceOrder(_, _)
InSourceOrder(p, n) ==
    IF n = 0 THEN <<>>
    ELSE InSourceOrder(p, n - 1)
            \o (IF Succeeded(p, n) THEN Positioned(task[p][n].feed[1]) ELSE <<>>)

\* The per-source error map a response carries.
PerSourceErrors(body) ==
    IF "perSourceErrors" \in DOMAIN body THEN body.perSourceErrors ELSE <<>>

\* C1: the response of a poll is produced only after every per-source task
\* has settled, whatever fails and in whatever order, and it holds every
\* vehicle of every source that succeeded.
C1_ResponseAfterAllSettled ==
    \A p \in Polls :
        Responded(p) =>
            /\ \A s \in Sources : task[p][s].pc = "done"
            /\ \A s \in Sources : Succeeded(p, s) =>
                \A i \in 1..Len(Positioned(task[p][s].feed[1])) :
                    \E j \in 1..Len(Response(p).body.vehicles) :
                        Sighting(Response(p).body.vehicles[j]) = Positioned(task[p][s].feed[1])[i]

\* A response sent after one source failed and another delivered vehicles.
C1_Witness ==
    \E p \in Polls : \E s, t \in Sources :
        /\ Responded(p)
        /\ Failed(p, s)
        /\ Succeeded(p, t)
        /\ Positioned(task[p][t].feed[1]) # <<>>
        /\ Response(p).body.vehicles # <<>>

\* C2: with K of the N sources failing, the vehicle list of the response is
\* exactly the union of the positioned entities of the N-K succeeding
\* sources: each appears once, and a failing source contributes nothing.
C2_UnionOfSucceeding ==
    \A p \in Polls :
        Responded(p) =>
            /\ Response(p).status = 200
            /\ SeqToBag(Sightings(Response(p).body.vehicles))
                = SeqToBag(InSourceOrder(p, NumSources))

\* One source failed, and a succeeding one sent an entity that is skipped
\* and entities that are kept.
C2_Witness ==
    \E p \in Polls : \E s, t \in Sources :
        /\ Responded(p)
        /\ Cardinality(FailedSources(p)) = 1
        /\ Succeeded(p, t)
        /\ Len(Positioned(task[p][t].feed[1])) \in 1..(Len(task[p][t].feed[1]) - 1)
        /\ Len(Response(p).body.vehicles) = Len(Positioned(task[p][t].feed[1]))

\* C3: the response carries a per-source error map with exactly one entry
\* per failing source, keyed by the source, and none for a succeeding one.
C3_ErrorMapPerFailingSource ==
    \A p \in Polls :
        Responded(p) =>
            DOMAIN PerSourceErrors(Response(p).body)
                = {FEED_URLS[s] : s \in FailedSources(p)}

\* C4: the vehicle list of the response is in source-list order, then feed
\* order, whichever source answered first.
C4_SourceListOrder ==
    \A p \in Polls :
        Responded(p) =>
            Sightings(Response(p).body.vehicles) = InSourceOrder(p, NumSources)

\* C5: when every source failed, the poll answers with a non-failure result
\* whose vehicle list is empty and whose error map has N entries.
C5_AllFailedResult ==
    \A p \in Polls :
        (Responded(p) /\ FailedSources(p) = Sources) =>
            /\ Response(p).status = 200
            /\ Response(p).body.vehicles = <<>>
            /\ Cardinality(DOMAIN PerSourceErrors(Response(p).body)) = NumSources

\* C6: every poll that started eventually produces its response, also when
\* a source never answers.
C6_CollectTerminates ==
    \A p \in Polls : (handler[p] = "waiting") ~> Responded(p)

(***************************************************************************)
(* Properties of the shapes cache.                                         *)
(***************************************************************************)
\* The positions of init() at which no build has completed.
Unbuilt == {"download", "extract", "build", "loop", "failed"}

IsCollection(response) ==
    response.status = 200 /\ "features" \in DOMAIN response.body

\* The snapshot of the finished build.
BuildDone == initPc \in {"listen", "listening"} /\ tripIdx > Len(trips)
FinishedSnapshot == FeatureCollection(Features(routeDirShapes))

\* C7: a request served before the first completed build is answered
\* NotReady (500 "Shapes not loaded"), never with a feature collection;
\* once a build has completed, the answer is a feature collection, also
\* when the build found no route and the collection is empty.
C7_NotReadyBeforeBuild ==
    \A i \in 1..Len(gets) :
        /\ gets[i].at \in Unbuilt =>
            (gets[i].res = NotReadyResponse /\ ~IsCollection(gets[i].res))
        /\ gets[i].at \notin Unbuilt => IsCollection(gets[i].res)

\* A request before the build answered NotReady, and one after a build over
\* an empty trip table answered with an empty feature collection.
C7_Witness ==
    /\ Len(gets) = 2
    /\ gets[1].at = "extract"
    /\ gets[1].res.status = 500
    /\ data.trips = Some(<<>>)
    /\ gets[2].at = "listening"
    /\ IsCollection(gets[2].res)
    /\ gets[2].res.body.features = <<>>

\* C8: no reader sees a partly built snapshot: the cache holds nothing or
\* the snapshot of the finished build, and every answer is NotReady or that
\* snapshot in full, at whatever point of the build the request is served.
C8_NoPartialSnapshot ==
    /\ cachedShapes # None => (BuildDone /\ cachedShapes[1] = FinishedSnapshot)
    /\ \A i \in 1..Len(gets) :
        \/ gets[i].res = NotReadyResponse
        \/ (BuildDone /\ gets[i].res.body = JsonShapes(FinishedSnapshot))

\* A request served inside the trip loop, after the first of two lines was
\* built, answered NotReady; a later one got both features.
C8_Witness ==
    /\ Len(gets) = 2
    /\ gets[1].at = "loop"
    /\ gets[1].idx = 2
    /\ gets[1].res = NotReadyResponse
    /\ IsCollection(gets[2].res)
    /\ Len(gets[2].res.body.features) = 2

\* C9: serving a request leaves the cache, the build's state and the count
\* of table reads unchanged and answers with the snapshot the cache holds;
\* a snapshot, once stored, is never replaced or changed.
C9_GetIsPure ==
    [][/\ gets' # gets =>
            /\ cachedShapes' = cachedShapes
            /\ reads' = reads
            /\ buildLocals' = buildLocals
            /\ cachedShapes # None =>
                gets'[Len(gets')].res = [status |-> 200, body |-> JsonShapes(cachedShapes[1])]
       /\ cachedShapes # None => cachedShapes' = cachedShapes]_vars

\* Two requests after the build got the same, non-empty snapshot, and the
\* tables were read once each.
C9_Witness ==
    /\ Len(gets) = 2
    /\ gets[1].at = "listening"
    /\ gets[2].at = "listening"
    /\ IsCollection(gets[1].res)
    /\ gets[1].res.body.features # <<>>
    /\ gets[2].res = gets[1].res
    /\ reads = 2

\* C10: when the download, the extraction or the reading of a table fails,
\* the failure leaves the build and init(): no snapshot is stored, the
\* server never listens and no request is answered with a collection.
C10_FailedStartupNeverReady ==
    /\ ((data.shapes = None \/ data.trips = None) /\ initPc \notin {"download", "extract", "build"})
            => initError # None
    /\ initError # None =>
            /\ initPc = "failed"
            /\ cachedShapes = None
            /\ \A i \in 1..Len(gets) : ~IsCollection(gets[i].res)

\* shapes.txt was read, trips.txt is missing: the build threw, and a request
\* served afterwards was answered NotReady.
C10_Witness ==
    /\ initPc = "failed"
    /\ data.shapes # None
    /\ data.trips = None
    /\ reads = 2
    /\ Len(gets) > 0
    /\ gets[Len(gets)].at = "failed"
    /\ gets[Len(gets)].res = NotReadyResponse

(***************************************************************************)
(* Properties of the geometry build.                                       *)
(***************************************************************************)
\* The lines the geometry holds, over all routes and directions.
AllLines(rds) ==
    Flatten([r \in 1..Len(rds) |->
                Flatten([d \in 1..Len(rds[r].dirs) |-> rds[r].dirs[d].lines])])

\* The lines of the entry of a route and direction, <<>> when there is none.
LinesOf(rds, route, dir) ==
    IF Find(rds, route) = 0 THEN <<>>
    ELSE LET dirs == rds[Find(rds, route)].dirs
         IN  IF Find(dirs, dir) = 0 THEN <<>> ELSE dirs[Find(dirs, dir)].lines

\* C11: every (route_id, direction_id, shape_id) triple of the trip table
\* is the source of at most one line of the geometry, however many trips
\* carry the triple; the line is pushed by the first trip that carries it,
\* and the geometry holds no line but the pushed ones.
C11_OneLinePerTriple ==
    /\ Len(AllLines(routeDirShapes)) = Len(pushed)
    /\ \A k \in 1..Len(pushed) :
        LET t == trips[pushed[k].trip]
        IN  /\ \A j \in 1..Len(trips) : trips[j] = t => j >= pushed[k].trip
            /\ \A k2 \in 1..Len(pushed) :
                \/ k2 = k
                \/ /\ trips[pushed[k2].trip] # t
                   /\ <<pushed[k2].route, pushed[k2].dir, pushed[k2].shape>>
                        # <<pushed[k].route, pushed[k].dir, pushed[k].shape>>
            /\ \E i \in 1..Len(LinesOf(routeDirShapes, pushed[k].route, pushed[k].dir)) :
                LinesOf(routeDirShapes, pushed[k].route, pushed[k].dir)[i] = pushed[k].line

\* Two trips with the same triple were processed: the first pushed the only
\* line, the second pushed nothing.
C11_Witness ==
    /\ initPc = "listening"
    /\ Len(trips) = 2
    /\ trips[1] = trips[2]
    /\ Len(pushed) = 1
    /\ pushed[1].trip = 1
    /\ Len(AllLines(routeDirShapes)) = 1

\* A decoded trip row lacks a direction: the column is missing, or the field
\* of the row is empty.
LacksDirection(trip) == trip.direction_id = None \/ trip.direction_id = Some("")

\* C12: the line of a trip that lacks a direction is filed under direction
\* "0", and such a trip is deduplicated against the trips of its route and
\* shape that state "0" or lack a direction too: of any two of them at most
\* one pushes a line.
C12_AbsentDirectionIsZero ==
    /\ \A k \in 1..Len(pushed) :
        LacksDirection(trips[pushed[k].trip]) => pushed[k].dir = "0"
    /\ \A k, k2 \in 1..Len(pushed) :
        LET t == trips[pushed[k].trip]
            u == trips[pushed[k2].trip]
        IN  (/\ LacksDirection(t)
             /\ LacksDirection(u) \/ u.direction_id = Some("0")
             /\ t.route_id = u.route_id
             /\ t.shape_id = u.shape_id) => k = k2

\* A trip that cannot contribute: it has no route_id, no shape_id, or its
\* shape_id names no row of shapes.txt.
Unusable(trip) ==
    \/ trip.route_id \in {None, Some("")}
    \/ trip.shape_id \in {None, Some("")}
    \/ \A i \in 1..Len(data.shapes[1]) : data.shapes[1][i].shape_id # trip.shape_id[1]

C14_MalformedRowSkipped ==
    cachedShapes # None =>
        \A f \in 1..Len(cachedShapes[1].features) :
            LET lines == cachedShapes[1].features[f].geometry.coordinates
            IN  \A l \in 1..Len(lines) : \A i \in 1..Len(lines[l]) :
                    ~lines[l][i][1].nan /\ ~lines[l][i][2].nan

\* The rows of a shape in the order of shapes.txt.
InputRows(shape) == SelectSeq(data.shapes[1], LAMBDA row : row.shape_id = shape)

\* Every field of every row is a numeral.
Numeric(rows) ==
    \A i \in 1..Len(rows) :
        /\ rows[i].shape_pt_sequence[1].num
        /\ rows[i].shape_pt_lon[1].num
        /\ rows[i].shape_pt_lat[1].num

\* The row of lowest sequence (the first of them in the input) and the row
\* of highest sequence (the last of them in the input).
LowestRow(rows) ==
    rows[CHOOSE i \in 1..Len(rows) :
            \A j \in 1..Len(rows) :
                \/ rows[i].shape_pt_sequence[1].v < rows[j].shape_pt_sequence[1].v
                \/ rows[i].shape_pt_sequence[1].v = rows[j].shape_pt_sequence[1].v /\ i <= j]

HighestRow(rows) ==
    rows[CHOOSE i \in 1..Len(rows) :
            \A j \in 1..Len(rows) :
                \/ rows[i].shape_pt_sequence[1].v > rows[j].shape_pt_sequence[1].v
                \/ rows[i].shape_pt_sequence[1].v = rows[j].shape_pt_sequence[1].v /\ i >= j]

\* The coordinate is exactly the (lon, lat) of the row.
ExactlyAt(coord, row) ==
    /\ coord[1] = [nan |-> FALSE, v |-> row.shape_pt_lon[1].v]
    /\ coord[2] = [nan |-> FALSE, v |-> row.shape_pt_lat[1].v]

\* r is x rounded to five decimals: a multiple of ten millionths of a degree
\* at most five millionths away from x.
RoundedTo5(r, x) ==
    /\ ~r.nan
    /\ r.v % 10 = 0
    /\ r.v - x <= 5
    /\ x - r.v <= 5

RoundedAt(coord, row) ==
    /\ RoundedTo5(coord[1], row.shape_pt_lon[1].v)
    /\ RoundedTo5(coord[2], row.shape_pt_lat[1].v)

\* C15 as stated: the line of a shape of two or more points starts exactly
\* at the (lon, lat) of its lowest-sequence point and ends exactly at the
\* (lon, lat) of its highest-sequence point.
C15_EndpointsExact ==
    \A k \in 1..Len(pushed) :
        LET rows == InputRows(pushed[k].shape)
            line == pushed[k].line
        IN  (Len(rows) >= 2 /\ Numeric(rows)) =>
                /\ Len(line) >= 2
                /\ ExactlyAt(line[1], LowestRow(rows))
                /\ ExactlyAt(line[Len(line)], HighestRow(rows))

\* C15, amended: the line of a shape of two or more points starts at the
\* (lon, lat) of its lowest-sequence point and ends at the (lon, lat) of its
\* highest-sequence point, each rounded to five decimals; simplification
\* removes neither endpoint.
C15_EndpointsRounded ==
    \A k \in 1..Len(pushed) :
        LET rows == InputRows(pushed[k].shape)
            line == pushed[k].line
        IN  (Len(rows) >= 2 /\ Numeric(rows)) =>
                /\ Len(line) >= 2
                /\ RoundedAt(line[1], LowestRow(rows))
                /\ RoundedAt(line[Len(line)], HighestRow(rows))

\* The line of S2 was pushed: four points, of which simplify dropped one,
\* and the last point (-73.986004, 40.750006) came out as (-73.986, 40.75001).
C15_Witness ==
    \E k \in 1..Len(pushed) :
        /\ pushed[k].shape = "S2"
        /\ Len(InputRows("S2")) = 4
        /\ Len(pushed[k].line) = 3
        /\ HighestRow(InputRows("S2")).shape_pt_lon[1].v = -73986004
        /\ pushed[k].line[3] = <<[nan |-> FALSE, v |-> -73986000], [nan |-> FALSE, v |-> 40750010]>>

(***************************************************************************)
(* Properties of the vehicle ids and of the tasks of a poll.                *)
(***************************************************************************)
\* The record has the id the resolution order gives the entity: the id of
\* the entity, else the id of its vehicle descriptor, else a placeholder.
ResolvedFrom(record, ent) ==
    LET descriptor == ent.vehicle[1].vehicle
    IN  IF ent.id # None
        THEN record.id = [type |-> "string", s |-> ent.id[1], n |-> 0]
        ELSE IF descriptor # None /\ descriptor[1].id # None
        THEN record.id = [type |-> "string", s |-> descriptor[1].id[1], n |-> 0]
        ELSE record.id.type = "number"

\* C16: every record of a response has the id of its feed entity, else the
\* id of the entity's vehicle descriptor, else a synthesized placeholder,
\* and no two records of the response share a placeholder.
C16_PlaceholderUnique ==
    \A p \in Polls :
        (Responded(p) /\ Response(p).status = 200) =>
            LET out == Response(p).body.vehicles
            IN  /\ \A s \in Sources : Succeeded(p, s) =>
                    \A e \in 1..Len(task[p][s].feed[1]) :
                        LET ent == task[p][s].feed[1][e]
                        IN  HasPosition(ent) =>
                                \E i \in 1..Len(out) :
                                    /\ out[i].timestamp = ent.vehicle[1].timestamp
                                    /\ ResolvedFrom(out[i], ent)
                /\ \A i, j \in 1..Len(out) :
                    (i # j /\ out[i].id.type = "number" /\ out[j].id.type = "number")
                        => out[i].id # out[j].id

\* The task of source s of request p is still running: it awaits its fetch
\* or its body.
Running(p, s) == task[p][s].pc \in {"fetch", "body"}

\* C17: the tasks of a poll write no shared state: while a task of the poll
\* is still running, the result list holds no vehicle of any source.
C17_NoSharedWrites ==
    \A p \in Polls :
        (\E s \in Sources : Running(p, s)) => vehicles[p] = <<>>

\* C18: polls are independent.  A call that has started has a task of its
\* own for every source; at every point of every interleaving of the two
\* calls, the list of a call holds exactly the positioned entities of the
\* feeds its own tasks decoded, and its response is that list: no vehicle
\* another call fetched, and nothing of an earlier result.
C18_PollsIndependent ==
    \A p \in Calls :
        /\ handler[p] # "idle" => \A s \in Sources : task[p][s].pc # "idle"
        /\ SeqToBag(Sightings(vehicles[p])) = SeqToBag(InSourceOrder(p, NumSources))
        /\ Responded(p) =>
            /\ Response(p).status = 200
            /\ Response(p).body.vehicles = vehicles[p]

\* Both calls are waiting at once, each with a task still running; the
\* first has collected the vehicle of one feed and the second the vehicle
\* of the other.
C18_Witness ==
    /\ handler[1] = "waiting"
    /\ handler[2] = "waiting"
    /\ \E s \in Sources : Running(1, s)
    /\ \E s \in Sources : Running(2, s)
    /\ Sightings(vehicles[1]) = Positioned(<<EntA>>)
    /\ Sightings(vehicles[2]) = Positioned(<<EntB>>)

\* The sequence number of a row whose shape_pt_sequence is a numeral.
SeqNo(row) == row.shape_pt_sequence[1].v

\* The place of a row in rows, the rows of its shape in the order of
\* shapes.txt.
InputPlace(rows, row) == CHOOSE i \in 1..Len(rows) : rows[i] = row

\* The coordinates of line i.. are, in this order, the rounded coordinates
\* of some of the rows j.. .
RECURSIVE FollowsRows(_, _, _, _)
FollowsRows(line, rows, i, j) ==
    IF i > Len(line) THEN TRUE
    ELSE IF j > Len(rows) THEN FALSE
    ELSE IF RoundedAt(line[i], rows[j]) THEN FollowsRows(line, rows, i + 1, j + 1)
    ELSE FollowsRows(line, rows, i, j + 1)

\* The rows of the shape, with sequence numbers that are numerals, put in
\* ascending order of sequence, rows of equal sequence in input order.
InSequenceOrder(sorted, rows) ==
    /\ SeqToBag(sorted) = SeqToBag(rows)
    /\ \A i, j \in 1..Len(sorted) :
        i < j =>
            \/ SeqNo(sorted[i]) < SeqNo(sorted[j])
            \/ /\ SeqNo(sorted[i]) = SeqNo(sorted[j])
               /\ InputPlace(rows, sorted[i]) < InputPlace(rows, sorted[j])

\* C19: whatever the order of the rows of shapes.txt, the points of a shape
\* are used in ascending numeric order of sequence, points of equal sequence
\* in input order; every line follows that order; S1 given as (2, -74.0,
\* 40.7), (1, -74.01, 40.71) yields [[-74.01, 40.71], [-74.0, 40.7]].
C19_SequenceOrder ==
    /\ \A id \in DOMAIN shapesById :
        LET rows == InputRows(id)
        IN  (\A i \in 1..Len(rows) : rows[i].shape_pt_sequence[1].num)
                => InSequenceOrder(shapesById[id], rows)
    /\ \A k \in 1..Len(pushed) :
        LET rows == InputRows(pushed[k].shape)
        IN  /\ Numeric(rows) =>
                FollowsRows(pushed[k].line, shapesById[pushed[k].shape], 1, 1)
            /\ (pushed[k].shape = "S1" /\ rows = <<ShapeRow("S1", 2, -74000000, 40700000),
                                                    ShapeRow("S1", 1, -74010000, 40710000)>>)
                => pushed[k].line =
                        << <<[nan |-> FALSE, v |-> -74010000], [nan |-> FALSE, v |-> 40710000]>>,
                           <<[nan |-> FALSE, v |-> -74000000], [nan |-> FALSE, v |-> 40700000]>> >>

\* S1, given with sequence 2 before sequence 1, and S2, given with sequence
\* 3 first and two rows of sequence 2, were both made into lines; the rows
\* of S2 are held as 1, 2, 2, 3 with the two rows of sequence 2 in input
\* order.
C19_Witness ==
    /\ \E k \in 1..Len(pushed) : pushed[k].shape = "S1" /\ Len(pushed[k].line) = 2
    /\ \E k \in 1..Len(pushed) : pushed[k].shape = "S2"
    /\ SeqNo(InputRows("S1")[1]) = 2
    /\ SeqNo(InputRows("S2")[1]) = 3
    /\ [i \in 1..4 |-> SeqNo(shapesById["S2"][i])] = <<1, 2, 2, 3>>
    /\ InputPlace(InputRows("S2"), shapesById["S2"][2])
            < InputPlace(InputRows("S2"), shapesById["S2"][3])

\* C20: a shape of fewer than two points that a trip references gives an
\* empty line, and the line is kept: the entry of the route and direction
\* exists and holds a line of zero coordinates.
C20_DegenerateLineEmpty ==
    \A k \in 1..Len(pushed) :
        Len(InputRows(pushed[k].shape)) < 2 =>
            /\ pushed[k].line = <<>>
            /\ LinesOf(routeDirShapes, pushed[k].route, pushed[k].dir) # <<>>

\* The route and direction a trip serves: its route_id, and its direction_id
\* as stated, "0" when the row has none.
PairOf(trip) ==
    <<trip.route_id[1], IF trip.direction_id = None THEN "0" ELSE trip.direction_id[1]>>

\* The trips with a route, a shape and shape rows that serve the pair.
TripsOf(pair) == {i \in 1..Len(trips) : ~Unusable(trips[i]) /\ PairOf(trips[i]) = pair}

ShapesOf(pair) == {trips[i].shape_id[1] : i \in TripsOf(pair)}

\* The first trip of the pair that references the shape.
FirstSeen(pair, shape) ==
    CHOOSE i \in TripsOf(pair) :
        /\ trips[i].shape_id[1] = shape
        /\ \A j \in TripsOf(pair) : trips[j].shape_id[1] = shape => i <= j

\* The l-th shape of the pair in first-seen trip order.
NthShape(pair, l) ==
    CHOOSE s \in ShapesOf(pair) :
        Cardinality({t \in ShapesOf(pair) : FirstSeen(pair, t) < FirstSeen(pair, s)}) = l - 1

FeaturePair(f) == <<f.properties.route_id, f.properties.direction_id>>

\* C21: the built snapshot has exactly one feature per (route_id,
\* direction_id) pair served by a trip with a matching shape, and no other
\* feature; the lines of a feature are the lines of the distinct shapes of
\* its trips, one line per shape, in first-seen trip order, none of them
\* joined to another.
C21_OneFeaturePerPair ==
    (BuildDone /\ cachedShapes # None) =>
        LET fs == cachedShapes[1].features
        IN  /\ \A i, j \in 1..Len(fs) : FeaturePair(fs[i]) = FeaturePair(fs[j]) => i = j
            /\ \A t \in 1..Len(trips) :
                ~Unusable(trips[t]) => \E i \in 1..Len(fs) : FeaturePair(fs[i]) = PairOf(trips[t])
            /\ \A i \in 1..Len(fs) :
                LET pair == FeaturePair(fs[i])
                    lines == fs[i].geometry.coordinates
                IN  /\ TripsOf(pair) # {}
                    /\ Len(lines) = Cardinality(ShapesOf(pair))
                    /\ \A l \in 1..Len(lines) :
                        lines[l] = LineOf(shapesById[NthShape(pair, l)])

\* The position of the entity has both a latitude and a longitude.
Located(ent) ==
    /\ ent.vehicle[1].position[1].latitude # None
    /\ ent.vehicle[1].position[1].longitude # None

\* C22: every vehicle record of a response has a latitude and a longitude:
\* an entity whose position lacks either yields no record, and the other
\* entities of its feed are returned.
C22_LatLonRequired ==
    \A p \in Polls :
        (Responded(p) /\ Response(p).status = 200) =>
            LET out == Response(p).body.vehicles
            IN  /\ \A i \in 1..Len(out) : out[i].lat # None /\ out[i].lon # None
                /\ \A s \in Sources : Succeeded(p, s) =>
                    \A e \in 1..Len(task[p][s].feed[1]) :
                        LET ent == task[p][s].feed[1][e]
                        IN  HasPosition(ent) =>
                                (Located(ent) <=>
                                    \E i \in 1..Len(out) :
                                        out[i].timestamp = ent.vehicle[1].timestamp)

\* The triple of a trip: its route, its direction and its shape.
TripleOf(trip) == <<PairOf(trip)[1], PairOf(trip)[2], trip.shape_id[1]>>

\* C23: the deduplication key identifies a triple: every processed trip
\* with a route, a shape and shape rows has a line pushed for its triple,
\* by itself or by an earlier trip with the identical triple, whatever
\* characters the ids contain; no trip is skipped because of a trip with a
\* different triple.
C23_KeyIdentifiesTriple ==
    \A t \in 1..(tripIdx - 1) :
        ~Unusable(trips[t]) =>
            \E k \in 1..Len(pushed) :
                /\ pushed[k].trip <= t
                /\ <<pushed[k].route, pushed[k].dir, pushed[k].shape>> = TripleOf(trips[t])

(***************************************************************************)
(* Properties of the static GTFS cache.                                    *)
(***************************************************************************)
\* C24: getStaticGtfs(url) returns the dataset downloaded from the url it
\* was called with, after any sequence of calls with different urls.
C24_DataOfRequestedUrl ==
    \A c \in 1..Len(staticCalls) :
        staticCalls[c].pc = "returned" => staticCalls[c].result[1].url = staticCalls[c].url

\* The calls that have downloaded their dataset.
Downloaded(calls) == {c \in 1..Len(calls) : calls[c].fetched /\ calls[c].pc = "returned"}

\* C25: for every interleaving of overlapping calls, updatedAt never
\* decreases, the cached data is that of the most recently started download
\* that has completed, and a failed download leaves the cache unchanged.
C25_CacheOrdered ==
    [][/\ staticGtfsCache'.updatedAt >= staticGtfsCache.updatedAt
       /\ staticGtfsCache'.data # None =>
            \A c \in Downloaded(staticCalls') : c <= staticGtfsCache'.data[1].call
       /\ (\E c \in 1..Len(staticCalls) :
                staticCalls[c].pc = "fetching" /\ staticCalls'[c].pc = "threw")
            => staticGtfsCache' = staticGtfsCache]_vars

(***************************************************************************)
(* Properties of the client.                                               *)
(***************************************************************************)
\* Poll p takes a step.
PollActs(p) == mapPolls'[p] # mapPolls[p]

\* C26: the displayed vehicle list is never replaced by the result of an
\* older poll once the result of a poll started later has been applied, and
\* a poll whose run of the effect has been cleaned up applies no state
\* update, neither to the vehicles nor to the errors.
C26_NoStaleOrLateUpdate ==
    [][/\ mapVehicles'.poll >= mapVehicles.poll
       /\ \A p \in 1..Len(mapPolls) :
            (PollActs(p) /\ ~Mounted(mapPolls[p].effect)) =>
                mapVehicles' = mapVehicles /\ mapErrors' = mapErrors]_vars

====
